---------------------------- MODULE Spec2Model ----------------------------
(***************************************************************************)
(* A model of pkg/pinging/ping.go: the Minecraft Server List Ping client. *)
(*                                                                         *)
(* Bytes are the integers 0..255 and byte strings are sequences of them.   *)
(* A uint64 is the set of the positions (0..63) of its one-bits, so that   *)
(* the 64-bit width of the source's arithmetic is kept: masking is an      *)
(* intersection, a shift moves the positions and drops those that leave    *)
(* the word, and two words are equal exactly when their sets are.          *)
(***************************************************************************)
EXTENDS Integers, Sequences, FiniteSets, TLC

(***************************************************************************)
(* Bounds of the model.                                                    *)
(***************************************************************************)
\* the codec is applied to every uint64 in 0..MaxSmall (and to the words
\* of U64Inputs below)
MaxSmall == 300
\* makePacket is applied to every payload over SampleBytes of at most this
\* length (and to the long payloads of LongLens)
MaxPayloadLen == 3

(***************************************************************************)
(* Program constants.                                                      *)
(***************************************************************************)
protocolVersion == 47
\* encoding/binary.MaxVarintLen64, the size of encodeVarint's buffer
MaxVarintLen64 == 10

(***************************************************************************)
(* uint64 arithmetic on sets of bit positions.                             *)
(***************************************************************************)
WordBits == 0..63

RECURSIVE Pow2(_)
Pow2(n) == IF n = 0 THEN 1 ELSE 2 * Pow2(n - 1)

\* the uint64 of a natural number below 2^31
U64(n) ==
    LET bits[m \in Nat] == {i \in 0..30 : (m \div Pow2(i)) % 2 = 1}
    IN  bits[n]

\* the sum of 2^i over the positions i of S that are below 31
SumBits(S) ==
    LET sum[k \in -1..30] ==
          IF k < 0 THEN 0 ELSE sum[k - 1] + (IF k \in S THEN Pow2(k) ELSE 0)
    IN  sum[30]

\* the natural number of a uint64 below 2^31
Nat64(x) == SumBits(x)

Fits31(x) == \A i \in x : i <= 30

\* x & 0x7F
Low7(x) == x \cap (0..6)
\* uint8(x)
Uint8(x) == SumBits(x \cap (0..7))
\* a shift by a whole byte: x >> 8
Shr8(x) == {i - 8 : i \in x \ (0..7)}
\* x >> 7
Shr7(x) == {i - 7 : i \in x \ (0..6)}
\* the loop's test off by one: x > 128
Gt128(x) == (\E i \in x : i >= 8) \/ (7 \in x /\ x # {7})
\* x > 127
Gt127(x) == \E i \in x : i >= 7
\* uint64(b) << s, the bits shifted out of the word are lost
ShlByte(b, s) == {i + s : i \in U64(b)} \cap WordBits


(***************************************************************************)
(* The varint codec.                                                       *)
(***************************************************************************)
\* the for loop of encodeVarint: buf is the array [10]byte, indexed from 0,
\* and a store at an index outside it is a run-time panic
RECURSIVE encodeLoop(_, _, _)
encodeLoop(x, buf, n) ==
    IF Gt127(x)
    THEN IF n >= MaxVarintLen64
         THEN [buf |-> buf, n |-> n, x |-> x, panic |-> TRUE]
         ELSE encodeLoop(Shr7(x), [buf EXCEPT ![n] = 128 + Uint8(Low7(x))], n + 1)
    ELSE [buf |-> buf, n |-> n, x |-> x, panic |-> FALSE]

\* encodeVarint with its panic made visible: [panic, bytes]
encodeVarintRun(x) ==
    LET r == encodeLoop(x, [i \in 0..(MaxVarintLen64 - 1) |-> 0], 0)
    IN  IF r.panic \/ r.n >= MaxVarintLen64
        THEN [panic |-> TRUE, bytes |-> <<>>]
        ELSE LET buf == [r.buf EXCEPT ![r.n] = Uint8(r.x)]
                 n   == r.n + 1
             IN  [panic |-> FALSE, bytes |-> [i \in 1..n |-> buf[i - 1]]]

encodeVarint(x) == encodeVarintRun(x).bytes

\* encoding/binary.Uvarint: [x, n], n <= 0 when no value was decoded
RECURSIVE uvarintLoop(_, _, _, _)
uvarintLoop(buf, i, x, s) ==
    IF i >= Len(buf)
    THEN [x |-> {}, n |-> 0]
    ELSE LET b == buf[i + 1]
         IN  IF i = MaxVarintLen64
             THEN [x |-> {}, n |-> -(i + 1)]
             ELSE IF b < 128
                  THEN IF i = MaxVarintLen64 - 1 /\ b > 1
                       THEN [x |-> {}, n |-> -(i + 1)]
                       ELSE [x |-> x \cup ShlByte(b, s), n |-> i + 1]
                  ELSE uvarintLoop(buf, i + 1, x \cup ShlByte(b % 128, s), s + 7)

\* a decoder that takes the bytes it has for the varint when no byte ends it
UvarintUnended(buf) ==
    LET r == uvarintLoop(buf, 0, {}, 0)
    IN  IF r.n <= 0 /\ Len(buf) > 0 THEN [x |-> r.x, n |-> Len(buf)] ELSE r

Uvarint(buf) == uvarintLoop(buf, 0, {}, 0)

\* encoding/binary.ReadUvarint on a reader that delivers the bytes of s and
\* then ends as `end` says: "eof" (the peer closed), "reset" (a read error)
\* or "hang" (the peer stays silent and the read never returns).
\* [x, err, used]: err is "nil", "EOF", "UnexpectedEOF", "reset", "overflow"
\* or "block"
RECURSIVE readUvarintLoop(_, _, _, _, _)
readUvarintLoop(s, end, i, x, sh) ==
    IF i >= MaxVarintLen64
    THEN [x |-> x, err |-> "overflow", used |-> i]
    ELSE IF i >= Len(s)
         THEN [x |-> x, used |-> i,
               err |-> IF end = "hang" THEN "block"
                       ELSE IF end = "reset" THEN "reset"
                       ELSE IF i > 0 THEN "UnexpectedEOF" ELSE "EOF"]
         ELSE LET b == s[i + 1]
              IN  IF b < 128
                  THEN IF i = MaxVarintLen64 - 1 /\ b > 1
                       THEN [x |-> x, err |-> "overflow", used |-> i + 1]
                       ELSE [x |-> x \cup ShlByte(b, sh), err |-> "nil", used |-> i + 1]
                  ELSE readUvarintLoop(s, end, i + 1, x \cup ShlByte(b % 128, sh), sh + 7)

ReadUvarint(s, end) == readUvarintLoop(s, end, 0, {}, 0)

\* the length written as one byte, not as a varint
makePacketByteLength(pl) == <<Len(pl) % 256>> \o pl

\* makePacket: the varint of the payload's length, then the payload
makePacket(pl) == encodeVarint(U64(Len(pl))) \o pl


(***************************************************************************)
(* Strings are byte strings.  The characters the code looks for:           *)
(***************************************************************************)
Chr == [colon |-> 58, lbracket |-> 91, rbracket |-> 93, minus |-> 45,
        plus |-> 43, zero |-> 48, quote |-> 34, lbrace |-> 123,
        rbrace |-> 125, comma |-> 44]

\* s[from:], from counted from 0 as in the source
SliceFrom(s, from) == SubSeq(s, from + 1, Len(s))

\* the index (from 0) of the first / the last ch in s, -1 when there is none
IndexByte(s, ch) ==
    IF \E i \in 1..Len(s) : s[i] = ch
    THEN (CHOOSE i \in 1..Len(s) : s[i] = ch /\ \A j \in 1..(i - 1) : s[j] # ch) - 1
    ELSE -1

LastIndexByte(s, ch) ==
    IF \E i \in 1..Len(s) : s[i] = ch
    THEN (CHOOSE i \in 1..Len(s) : s[i] = ch /\ \A j \in (i + 1)..Len(s) : s[j] # ch) - 1
    ELSE -1

\* the decimal digits of a natural number
Digits(n) ==
    LET digits[m \in Nat] ==
          IF m < 10 THEN <<Chr.zero + m>>
          ELSE Append(digits[m \div 10], Chr.zero + (m % 10))
    IN  digits[n]

\* fmt's %d of an int
FormatInt(n) == IF n < 0 THEN <<Chr.minus>> \o Digits(-n) ELSE Digits(n)

\* fmt.Sprintf("%s:%d", address, port)
HostPort(addr, prt) == addr \o <<Chr.colon>> \o FormatInt(prt)

\* the number a string of digits denotes
DigitsValue(s) ==
    LET val[k \in 0..Len(s)] ==
          IF k = 0 THEN 0 ELSE 10 * val[k - 1] + (s[k] - Chr.zero)
    IN  val[Len(s)]

\* strconv.Atoi: [ok, val]
Atoi(s) ==
    LET signed == s # <<>> /\ s[1] \in {Chr.minus, Chr.plus}
        digits == IF signed THEN SliceFrom(s, 1) ELSE s
    IN  IF digits = <<>> \/ \E i \in 1..Len(digits) : digits[i] \notin Chr.zero..(Chr.zero + 9)
        THEN [ok |-> FALSE, val |-> 0]
        ELSE [ok |-> TRUE,
              val |-> IF signed /\ s[1] = Chr.minus THEN -DigitsValue(digits)
                      ELSE DigitsValue(digits)]

\* net.SplitHostPort: [err, host, port], err "nil" when the split succeeded
SplitHostPort(hostport) ==
    LET i   == LastIndexByte(hostport, Chr.colon)
        bad(e) == [err |-> e, host |-> <<>>, port |-> <<>>]
    IN  IF i < 0 THEN bad("missing port in address")
        ELSE LET bracketed == hostport[1] = Chr.lbracket
                 end == IndexByte(hostport, Chr.rbracket)
                 h   == IF bracketed THEN SubSeq(hostport, 2, end) ELSE SubSeq(hostport, 1, i)
                 j   == IF bracketed THEN 1 ELSE 0
                 k   == IF bracketed THEN end + 1 ELSE 0
             IN  IF bracketed /\ end < 0 THEN bad("missing ']' in address")
                 ELSE IF bracketed /\ end + 1 = Len(hostport) THEN bad("missing port in address")
                 ELSE IF bracketed /\ end + 1 # i
                      THEN IF hostport[end + 2] = Chr.colon
                           THEN bad("too many colons in address")
                           ELSE bad("missing port in address")
                 ELSE IF ~bracketed /\ IndexByte(h, Chr.colon) >= 0
                      THEN bad("too many colons in address")
                 ELSE IF IndexByte(SliceFrom(hostport, j), Chr.lbracket) >= 0
                      THEN bad("unexpected '[' in address")
                 ELSE IF IndexByte(SliceFrom(hostport, k), Chr.rbracket) >= 0
                      THEN bad("unexpected ']' in address")
                 ELSE [err |-> "nil", host |-> h, port |-> SliceFrom(hostport, i + 1)]

\* a conversion that stops at the ends of the range of int16
Int16Saturating(i) == IF i > 32767 THEN 32767 ELSE IF i < -32768 THEN -32768 ELSE i

\* int16(i): the low 16 bits of i, read as a signed number
Int16(i) == IF i % 65536 >= 32768 THEN (i % 65536) - 65536 ELSE i % 65536

\* the two bytes of the int16 v in two's complement, high byte first
BigEndianInt16(v) ==
    LET u == IF v < 0 THEN v + 65536 ELSE v
    IN  <<u \div 256, u % 256>>

\* the port's two bytes low byte first
Int16LittleEndian(iPort) == <<iPort % 256, (iPort % 65536) \div 256>>

\* binary.Write(pl, binary.BigEndian, int16(iPort)): the conversion keeps the
\* low 16 bits and the two bytes are written high byte first
Int16BigEndian(iPort) == BigEndianInt16(Int16(iPort))

\* the payload sendHandShake builds from Ping's host string:
\* [panic, pl], panic when the split or the port's parse fails
handShakePayload(hoststr) ==
    LET sp    == SplitHostPort(hoststr)
        iPort == Atoi(sp.port)
    IN  IF sp.err # "nil" \/ ~iPort.ok
        THEN [panic |-> TRUE, pl |-> <<>>]
        ELSE [panic |-> FALSE,
              pl |-> <<0, protocolVersion>>
                     \o encodeVarint(U64(Len(sp.host))) \o sp.host
                     \o Int16BigEndian(iPort.val)
                     \o <<1>>]

\* a status request that carries the protocol version after its packet id
statusRequestWithVersion == <<0, protocolVersion>>

\* the payload sendStatusRequest builds
statusRequestPayload == <<0>>

\* a dialer that connects whatever the host string is
DialTargetUnchecked(hoststr) == [ok |-> TRUE, host |-> hoststr, port |-> 0]

\* what the dialer makes of Ping's host string: [ok, host, port]; the
\* address must split and its port must be a number in 0..65535
DialTarget(hoststr) ==
    LET sp == SplitHostPort(hoststr)
        p  == Atoi(sp.port)
    IN  IF sp.err = "nil" /\ p.ok /\ p.val >= 0 /\ p.val <= 65535
        THEN [ok |-> TRUE, host |-> sp.host, port |-> p.val]
        ELSE [ok |-> FALSE, host |-> <<>>, port |-> 0]


(***************************************************************************)
(* encoding/json, for the documents of this model: objects, strings        *)
(* without escapes, non-negative integers and null, with no white space.   *)
(* Any other input is an error, as it is for json.Unmarshal on these       *)
(* bytes.  A null leaves the field, or the whole response, as it was.      *)
(***************************************************************************)
JStr(b) == [t |-> "str", s |-> b, n |-> 0, m |-> <<>>]
JNum(k) == [t |-> "num", s |-> <<>>, n |-> k, m |-> <<>>]
JObj(ms) == [t |-> "obj", s |-> <<>>, n |-> 0, m |-> ms]
JNull == [t |-> "null", s |-> <<>>, n |-> 0, m |-> <<>>]
JFail == [ok |-> FALSE, pos |-> 0, val |-> JNull]

IsDigit(b) == b \in Chr.zero..(Chr.zero + 9)
StrChar(b) == b >= 32 /\ b # Chr.quote /\ b # 92

\* the length of the run of digits, and of string characters, from pos (from 1)
DigitRun(d, pos) ==
    (CHOOSE j \in pos..(Len(d) + 1) :
        /\ j > Len(d) \/ ~IsDigit(d[j])
        /\ \A k \in pos..(j - 1) : IsDigit(d[k])) - pos
CharRun(d, pos) ==
    (CHOOSE j \in pos..(Len(d) + 1) :
        /\ j > Len(d) \/ ~StrChar(d[j])
        /\ \A k \in pos..(j - 1) : StrChar(d[k])) - pos

\* a string literal at pos: [ok, pos (after it), val]
ParseString(d, pos) ==
    IF pos > Len(d) \/ d[pos] # Chr.quote THEN JFail
    ELSE LET k == CharRun(d, pos + 1)
         IN  IF pos + 1 + k <= Len(d) /\ d[pos + 1 + k] = Chr.quote
             THEN [ok |-> TRUE, pos |-> pos + k + 2, val |-> JStr(SubSeq(d, pos + 1, pos + k))]
             ELSE JFail

\* the literal null
NullLiteral == <<110, 117, 108, 108>>

ParseNumber(d, pos) ==
    LET k == DigitRun(d, pos)
    IN  IF k = 0 \/ (k > 1 /\ d[pos] = Chr.zero) THEN JFail
        ELSE [ok |-> TRUE, pos |-> pos + k, val |-> JNum(DigitsValue(SubSeq(d, pos, pos + k - 1)))]

\* The parse of the value ("v") that starts at a position of d, and of the
\* members ("m") of an object that follow a '{' or a ',' there:
\* "key":value, then ',' and more members, or '}'.  The result of "m" is
\* the object of the members from there on.
ParseAt(d) ==
    LET parse[k \in {"v", "m"}, pos \in 1..(Len(d) + 1)] ==
          IF pos > Len(d) THEN JFail
          ELSE IF k = "v"
          THEN IF d[pos] = Chr.quote THEN ParseString(d, pos)
               ELSE IF IsDigit(d[pos]) THEN ParseNumber(d, pos)
               ELSE IF pos + 3 <= Len(d) /\ SubSeq(d, pos, pos + 3) = NullLiteral
                    THEN [ok |-> TRUE, pos |-> pos + 4, val |-> JNull]
               ELSE IF d[pos] = Chr.lbrace
                    THEN IF pos + 1 <= Len(d) /\ d[pos + 1] = Chr.rbrace
                         THEN [ok |-> TRUE, pos |-> pos + 2, val |-> JObj(<<>>)]
                         ELSE parse["m", pos + 1]
               ELSE JFail
          ELSE LET key == ParseString(d, pos)
               IN  IF ~key.ok \/ key.pos > Len(d) \/ d[key.pos] # Chr.colon THEN JFail
                   ELSE LET v == parse["v", key.pos + 1]
                        IN  IF ~v.ok \/ v.pos > Len(d) THEN JFail
                            ELSE IF d[v.pos] = Chr.rbrace
                                 THEN [ok |-> TRUE, pos |-> v.pos + 1,
                                       val |-> JObj(<<<<key.val.s, v.val>>>>)]
                            ELSE IF d[v.pos] = Chr.comma
                                 THEN LET more == parse["m", v.pos + 1]
                                      IN  IF more.ok
                                          THEN [more EXCEPT
                                                  !.val = JObj(<<<<key.val.s, v.val>>>> \o more.val.m)]
                                          ELSE JFail
                            ELSE JFail
    IN  parse

ParseValue(d, pos) == ParseAt(d)["v", pos]

\* a whole document: one value and nothing after it
ParseDocument(d) ==
    LET v == ParseValue(d, 1)
    IN  IF v.ok /\ v.pos = Len(d) + 1 THEN v ELSE JFail

\* ASCII case folding, as the decoder matches keys to fields
Lower(str) == [i \in 1..Len(str) |-> IF str[i] \in 65..90 THEN str[i] + 32 ELSE str[i]]

\* the keys of the fields of PingResponse, Version and Players
Key == [version |-> <<118, 101, 114, 115, 105, 111, 110>>,
        players |-> <<112, 108, 97, 121, 101, 114, 115>>,
        description |-> <<100, 101, 115, 99, 114, 105, 112, 116, 105, 111, 110>>,
        favicon |-> <<102, 97, 118, 105, 99, 111, 110>>,
        name |-> <<110, 97, 109, 101>>,
        protocol |-> <<112, 114, 111, 116, 111, 99, 111, 108>>,
        max |-> <<109, 97, 120>>,
        online |-> <<111, 110, 108, 105, 110, 101>>,
        sample |-> <<115, 97, 109, 112, 108, 101>>]

\* the zero value of PingResponse (lines 21-39); a nil interface and a nil
\* slice are JNull and <<>>
ZeroResponse ==
    [Version |-> [Name |-> <<>>, Protocol |-> 0],
     Players |-> [Max |-> 0, Online |-> 0, Sample |-> <<>>],
     Description |-> JNull,
     Favicon |-> <<>>]

\* decoding the members of an object into a record, one member at a time:
\* the later of two members with one key wins, an unknown key is skipped,
\* and a value of the wrong type leaves the field and is an error at the end
RECURSIVE DecodeVersion(_, _, _)
DecodeVersion(ms, i, st) ==
    IF i > Len(ms) THEN st
    ELSE LET k == Lower(ms[i][1])
             v == ms[i][2]
         IN  DecodeVersion(ms, i + 1,
               IF v.t = "null" THEN st
               ELSE IF k = Key.name
               THEN IF v.t = "str" THEN [st EXCEPT !.v.Name = v.s] ELSE [st EXCEPT !.bad = TRUE]
               ELSE IF k = Key.protocol
               THEN IF v.t = "num" THEN [st EXCEPT !.v.Protocol = v.n] ELSE [st EXCEPT !.bad = TRUE]
               ELSE st)

RECURSIVE DecodePlayers(_, _, _)
DecodePlayers(ms, i, st) ==
    IF i > Len(ms) THEN st
    ELSE LET k == Lower(ms[i][1])
             v == ms[i][2]
         IN  DecodePlayers(ms, i + 1,
               IF v.t = "null" THEN st
               ELSE IF k = Key.max
               THEN IF v.t = "num" THEN [st EXCEPT !.v.Max = v.n] ELSE [st EXCEPT !.bad = TRUE]
               ELSE IF k = Key.online
               THEN IF v.t = "num" THEN [st EXCEPT !.v.Online = v.n] ELSE [st EXCEPT !.bad = TRUE]
               ELSE IF k = Key.sample
               THEN [st EXCEPT !.bad = TRUE]
               ELSE st)

RECURSIVE DecodeResponse(_, _, _)
DecodeResponse(ms, i, st) ==
    IF i > Len(ms) THEN st
    ELSE LET k == Lower(ms[i][1])
             v == ms[i][2]
         IN  DecodeResponse(ms, i + 1,
               IF v.t = "null" /\ k # Key.description THEN st
               ELSE IF k = Key.version
               THEN IF v.t = "obj"
                    THEN LET r == DecodeVersion(v.m, 1, [v |-> st.v.Version, bad |-> st.bad])
                         IN  [v |-> [st.v EXCEPT !.Version = r.v], bad |-> r.bad]
                    ELSE [st EXCEPT !.bad = TRUE]
               ELSE IF k = Key.players
               THEN IF v.t = "obj"
                    THEN LET r == DecodePlayers(v.m, 1, [v |-> st.v.Players, bad |-> st.bad])
                         IN  [v |-> [st.v EXCEPT !.Players = r.v], bad |-> r.bad]
                    ELSE [st EXCEPT !.bad = TRUE]
               ELSE IF k = Key.description
               THEN [st EXCEPT !.v.Description = v]
               ELSE IF k = Key.favicon
               THEN IF v.t = "str" THEN [st EXCEPT !.v.Favicon = v.s] ELSE [st EXCEPT !.bad = TRUE]
               ELSE st)

\* json.Unmarshal(data, &res) with res the zero PingResponse: [ok, res]
Unmarshal(data) ==
    LET doc == ParseDocument(data)
    IN  IF doc.ok /\ doc.val.t = "null"
        THEN [ok |-> TRUE, res |-> ZeroResponse]
        ELSE IF ~doc.ok \/ doc.val.t # "obj"
        THEN [ok |-> FALSE, res |-> ZeroResponse]
        ELSE LET r == DecodeResponse(doc.val.m, 1, [v |-> ZeroResponse, bad |-> FALSE])
             IN  [ok |-> ~r.bad, res |-> r.v]


(***************************************************************************)
(* readPong.                                                               *)
(***************************************************************************)
\* make([]byte, nl) panics (a run-time panic, deferred calls run) when nl
\* is more than the allocator's limit of 2^MaxAllocBits bytes
MaxAllocBits == 48
\* an allocation of 2^MemBits bytes or more may find the machine out of
\* memory, which ends the process with a fatal error
MemBits == 32

LenOutOfRange(nl) == (\E i \in nl : i > MaxAllocBits) \/ (MaxAllocBits \in nl /\ nl # {MaxAllocBits})
MayExhaustMemory(nl) == \E i \in nl : i >= MemBits

\* what one run of readPong leaves: how it ended (kind: "ok", "err",
\* "panic", "fatal" or "block"), the error and the response returned, and
\* its locals as far as it came
PongRun(kind, e, res, nl, pl, n, n2, js) ==
    [kind |-> kind, err |-> e, res |-> res, nl |-> nl, pl |-> pl,
     n |-> n, n2 |-> n2, json |-> js]

\* decodePong returning the half-filled response beside the JSON error
decodePongPartial(nl, pl) ==
    LET a == Uvarint(pl)
        b == Uvarint(SliceFrom(pl, a.n))
        body == SliceFrom(pl, a.n + b.n)
        u == Unmarshal(body)
    IN  IF a.n <= 0
        THEN PongRun("err", "could not read packet id", <<>>, nl, <<pl>>, a.n, 0, <<>>)
        ELSE IF b.n <= 0
        THEN PongRun("err", "could not read string varint", <<>>, nl, <<pl>>, a.n, b.n, <<>>)
        ELSE IF ~u.ok
        THEN PongRun("err", "could not read pong json", <<u.res>>, nl, <<pl>>, a.n, b.n, <<body>>)
        ELSE PongRun("ok", "nil", <<u.res>>, nl, <<pl>>, a.n, b.n, <<body>>)

\* decodePong without the check of n2: the bytes after the packet id go to
\* the JSON decoder when no string length was decoded
decodePongNoLengthCheck(nl, pl) ==
    LET a == Uvarint(pl)
        b == Uvarint(SliceFrom(pl, a.n))
        skip == IF b.n > 0 THEN b.n ELSE 0
        body == SliceFrom(pl, a.n + skip)
        u == Unmarshal(body)
    IN  IF a.n <= 0
        THEN PongRun("err", "could not read packet id", <<>>, nl, <<pl>>, a.n, 0, <<>>)
        ELSE IF ~u.ok
        THEN PongRun("err", "could not read pong json", <<>>, nl, <<pl>>, a.n, b.n, <<body>>)
        ELSE PongRun("ok", "nil", <<u.res>>, nl, <<pl>>, a.n, b.n, <<body>>)

\* decodePong with the string length checked against the bytes that follow
decodePongLengthChecked(nl, pl) ==
    LET a == Uvarint(pl)
        b == Uvarint(SliceFrom(pl, a.n))
        body == SliceFrom(pl, a.n + b.n)
        u == Unmarshal(body)
    IN  IF a.n <= 0
        THEN PongRun("err", "could not read packet id", <<>>, nl, <<pl>>, a.n, 0, <<>>)
        ELSE IF b.n <= 0
        THEN PongRun("err", "could not read string varint", <<>>, nl, <<pl>>, a.n, b.n, <<>>)
        ELSE IF ~u.ok \/ b.x # U64(Len(body))
        THEN PongRun("err", "could not read pong json", <<>>, nl, <<pl>>, a.n, b.n, <<body>>)
        ELSE PongRun("ok", "nil", <<u.res>>, nl, <<pl>>, a.n, b.n, <<body>>)

\* lines 128-145, on the payload pl of the declared length nl
decodePong(nl, pl) ==
    LET a == Uvarint(pl)
        b == Uvarint(SliceFrom(pl, a.n))
        body == SliceFrom(pl, a.n + b.n)
        u == Unmarshal(body)
    IN  IF a.n <= 0
        THEN PongRun("err", "could not read packet id", <<>>, nl, <<pl>>, a.n, 0, <<>>)
        ELSE IF b.n <= 0
        THEN PongRun("err", "could not read string varint", <<>>, nl, <<pl>>, a.n, b.n, <<>>)
        ELSE IF ~u.ok
        THEN PongRun("err", "could not read pong json", <<>>, nl, <<pl>>, a.n, b.n, <<body>>)
        ELSE PongRun("ok", "nil", <<u.res>>, nl, <<pl>>, a.n, b.n, <<body>>)

\* the read one byte short of the declared length
readPayloadShort(nl, rest, end) ==
    IF Fits31(nl) /\ Nat64(nl) <= Len(rest)
    THEN decodePong(nl, SubSeq(rest, 1, Nat64(nl) - 1))
    ELSE IF end = "hang"
    THEN PongRun("block", "nil", <<>>, nl, <<>>, 0, 0, <<>>)
    ELSE PongRun("err", "could not read length given by length header",
                 <<>>, nl, <<>>, 0, 0, <<>>)

\* lines 122-126: io.ReadFull of nl bytes from what follows the header
readPayload(nl, rest, end) ==
    IF Fits31(nl) /\ Nat64(nl) <= Len(rest)
    THEN decodePong(nl, SubSeq(rest, 1, Nat64(nl)))
    ELSE IF end = "hang"
    THEN PongRun("block", "nil", <<>>, nl, <<>>, 0, 0, <<>>)
    ELSE PongRun("err", "could not read length given by length header",
                 <<>>, nl, <<>>, 0, 0, <<>>)

\* readPong on a reader that delivers the bytes s and then ends as `end`
\* says: the set of the runs it can make
readPong(s, end) ==
    LET hdr == ReadUvarint(s, end)
        nl  == hdr.x
    IN  IF hdr.err = "block"
        THEN {PongRun("block", "nil", <<>>, {}, <<>>, 0, 0, <<>>)}
        ELSE IF hdr.err # "nil"
        THEN {PongRun("err", "could not read length", <<>>, {}, <<>>, 0, 0, <<>>)}
        ELSE IF LenOutOfRange(nl)
        THEN {PongRun("panic", "makeslice: len out of range", <<>>, nl, <<>>, 0, 0, <<>>)}
        ELSE {readPayload(nl, SliceFrom(s, hdr.used), end)}
             \cup (IF MayExhaustMemory(nl)
                   THEN {PongRun("fatal", "out of memory", <<>>, nl, <<>>, 0, 0, <<>>)}
                   ELSE {})


(***************************************************************************)
(* The inputs: the arguments of Ping, what the peer sends, and the inputs  *)
(* of the codec.                                                           *)
(***************************************************************************)
\* {}
DocEmpty ==
    <<123, 125>>
\* {"favicon":"x"}
DocFavicon ==
    <<123, 34, 102, 97, 118, 105, 99, 111, 110, 34, 58, 34, 120, 34, 125>>
\* {"version":{"name":"1.20","protocol":763},"players":{"max":20,"online":3}}
DocStatus ==
    <<123, 34, 118, 101, 114, 115, 105, 111, 110, 34, 58, 123, 34, 110,
    97, 109, 101, 34, 58, 34, 49, 46, 50, 48, 34, 44, 34, 112, 114, 111,
    116, 111, 99, 111, 108, 34, 58, 55, 54, 51, 125, 44, 34, 112, 108, 97,
    121, 101, 114, 115, 34, 58, 123, 34, 109, 97, 120, 34, 58, 50, 48, 44,
    34, 111, 110, 108, 105, 110, 101, 34, 58, 51, 125, 125>>
\* {"description":"A","Favicon":"y","extra":1}
DocMixed ==
    <<123, 34, 100, 101, 115, 99, 114, 105, 112, 116, 105, 111, 110, 34,
    58, 34, 65, 34, 44, 34, 70, 97, 118, 105, 99, 111, 110, 34, 58, 34,
    121, 34, 44, 34, 101, 120, 116, 114, 97, 34, 58, 49, 125>>
\* {"favicon":"iii...i"} with 120 i, 134 bytes
DocLong ==
    <<123, 34, 102, 97, 118, 105, 99, 111, 110, 34, 58, 34, 105, 105, 105,
    105, 105, 105, 105, 105, 105, 105, 105, 105, 105, 105, 105, 105, 105,
    105, 105, 105, 105, 105, 105, 105, 105, 105, 105, 105, 105, 105, 105,
    105, 105, 105, 105, 105, 105, 105, 105, 105, 105, 105, 105, 105, 105,
    105, 105, 105, 105, 105, 105, 105, 105, 105, 105, 105, 105, 105, 105,
    105, 105, 105, 105, 105, 105, 105, 105, 105, 105, 105, 105, 105, 105,
    105, 105, 105, 105, 105, 105, 105, 105, 105, 105, 105, 105, 105, 105,
    105, 105, 105, 105, 105, 105, 105, 105, 105, 105, 105, 105, 105, 105,
    105, 105, 105, 105, 105, 105, 105, 105, 105, 105, 105, 105, 105, 105,
    105, 105, 105, 105, 105, 34, 125>>
\* {
DocOpen ==
    <<123>>
\* {"favicon":5}
DocWrongType ==
    <<123, 34, 102, 97, 118, 105, 99, 111, 110, 34, 58, 53, 125>>
\* {}x
DocTrailing ==
    <<123, 125, 120>>
\* null
DocNull ==
    <<110, 117, 108, 108>>

\* a response packet: the length header, then the packet id and the string
\* length (each given as its bytes) and the document
Response(header, pid, strlen, doc) == header \o pid \o strlen \o doc

\* the well-formed responses by their parts; `more` is what the peer sends
\* after the packet
Parts(header, pid, strlen, doc, more) ==
    [header |-> header, pid |-> pid, strlen |-> strlen, doc |-> doc, more |-> more]

WellFormedParts ==
    { Parts(<<4>>, <<0>>, <<2>>, DocEmpty, <<>>),
      Parts(<<17>>, <<0>>, <<15>>, DocFavicon, <<>>),
      Parts(<<76>>, <<0>>, <<74>>, DocStatus, <<>>),
      Parts(<<45>>, <<0>>, <<43>>, DocMixed, <<>>),
      \* a length header and a string length of two bytes each
      Parts(<<137, 1>>, <<0>>, <<134, 1>>, DocLong, <<>>),
      \* a packet id that is not 0 and a string length that is not the document's
      Parts(<<17>>, <<5>>, <<0>>, DocFavicon, <<>>),
      Parts(<<19>>, <<128, 1>>, <<255, 127>>, DocFavicon, <<>>),
      \* bytes after the packet
      Parts(<<17>>, <<0>>, <<15>>, DocFavicon, <<0, 255>>) }

WellFormed ==
    {Response(w.header, w.pid, w.strlen, w.doc) \o w.more : w \in WellFormedParts}

\* every proper prefix of a well-formed response: the stream ends in the
\* header, in the payload or before its first byte
Truncated ==
    LET r == Response(<<17>>, <<0>>, <<15>>, DocFavicon)
    IN  {SubSeq(r, 1, k) : k \in 0..(Len(r) - 1)}

BadLength ==
    { \* the continuation bit on ten bytes
      <<128, 128, 128, 128, 128, 128, 128, 128, 128, 128>>,
      \* a tenth byte above 1: more than 64 bits
      <<255, 255, 255, 255, 255, 255, 255, 255, 255, 2>>,
      \* 2^64 - 1
      <<255, 255, 255, 255, 255, 255, 255, 255, 255, 1>>,
      \* 2^49
      <<128, 128, 128, 128, 128, 128, 128, 1>>,
      \* 2^35
      <<128, 128, 128, 128, 128, 1>>,
      \* 2^31
      <<128, 128, 128, 128, 8>>,
      \* the stream ends in the header, after one and after three continued bytes
      <<137>>,
      <<255, 255, 255>> }

BadHeader ==
    { \* an empty payload
      <<0>>,
      \* the payload ends after the packet id
      <<1, 0>>,
      \* the packet id's continuation runs to the end of the payload
      <<2, 128, 128>>,
      \* a packet id of eleven continued bytes
      <<12, 128, 128, 128, 128, 128, 128, 128, 128, 128, 128, 128, 0>>,
      \* the string length's continuation runs to the end of the payload
      <<3, 0, 128, 128>>,
      \* no document
      <<2, 0, 0>>,
      \* a packet id whose tenth byte is above 1
      <<11, 255, 255, 255, 255, 255, 255, 255, 255, 255, 2, 0>>,
      \* a string length of eleven continued bytes
      <<13, 0, 128, 128, 128, 128, 128, 128, 128, 128, 128, 128, 128, 0>>,
      \* a string length of ten continued bytes that run to the end of the payload
      <<11, 0, 128, 128, 128, 128, 128, 128, 128, 128, 128, 128>> }

BadBody ==
    { Response(<<3>>, <<0>>, <<1>>, DocOpen),
      Response(<<15>>, <<0>>, <<13>>, DocWrongType),
      Response(<<5>>, <<0>>, <<3>>, DocTrailing),
      Response(<<6>>, <<0>>, <<4>>, DocNull) }

Responses == WellFormed \cup Truncated \cup BadLength \cup BadHeader \cup BadBody

\* how the peer's stream ends after its bytes
Ends == {"eof", "reset", "hang"}

\* what the peer does: the bytes it sends and how its stream ends
Scripts == [resp : Responses, end : Ends]
NoScript == [resp |-> <<>>, end |-> "none"]

\* a host name of 130 bytes: its length takes two varint bytes
LongHost ==
    [i \in 1..130 |-> IF i <= 128 /\ i % 32 = 0 THEN 46 ELSE IF i = 129 THEN 105 ELSE IF i = 130 THEN 111 ELSE 97]

\* the addresses Ping is called with:
\* "", mc, [::1], ::1 (too many colons), [mc (no closing bracket), m] (a stray bracket) and the long host name
Addresses ==
    { <<>>,
      <<109, 99>>,
      <<91, 58, 58, 49, 93>>,
      <<58, 58, 49>>,
      <<91, 109, 99>>,
      <<109, 93>>,
      LongHost }

\* the ports Ping is called with
Ports == {-1, 0, 80, 25565, 32767, 32768, 40000, 65535, 65536}

\* the uint64 inputs of the codec: the small numbers, 25565, the powers of
\* two, their predecessors (2^64 - 1 among them) and the words with only
\* their high bits set
U64Inputs ==
    {U64(k) : k \in 0..MaxSmall} \cup {U64(25565)}
    \cup {{k} : k \in WordBits}
    \cup {0..(k - 1) : k \in 0..64}
    \cup {k..63 : k \in WordBits}

\* the payloads makePacket is applied to
SampleBytes == {0, 1, 127, 128, 255}
LongLens == {127, 128, 129, 300}
RECURSIVE SeqsUpTo(_, _)
SeqsUpTo(S, k) ==
    IF k = 0 THEN {<<>>}
    ELSE LET shorter == SeqsUpTo(S, k - 1)
         IN  shorter \cup {Append(q, b) : q \in {t \in shorter : Len(t) = k - 1}, b \in S}
Payloads ==
    SeqsUpTo(SampleBytes, MaxPayloadLen)
    \cup {[i \in 1..k |-> (7 * i) % 256] : k \in LongLens}

(***************************************************************************)
(* The state.  Each call of Ping has its own locals and its own            *)
(* connection: every variable is a function of the call.                   *)
(***************************************************************************)
Calls == {1, 2}

VARIABLES
    pc,        \* where the call is: "NotCalled", the states of the exchange
               \* ("Disconnected", "Connected", "HandshakeSent",
               \* "StatusRequested"), returned ("ResponseReceived",
               \* "Failed"), left by a panic ("Panicked") or ended with the
               \* process ("Aborted")
    address,   \* Ping's arguments
    port,
    host,      \* Ping's local host, the string that is dialed
    target,    \* the host and port the dialer connected to
    conn,      \* the connection: "nil", "open" or "closed"
    closes,    \* the number of calls of conn.Close
    wire,      \* the Writes on the connection, in order: the bytes each sent
               \* and whether it returned no error
    peers,     \* what a peer may do: the scripts the peers play one of
    server,    \* what the peer does once the request is out
    steps,     \* the I/O steps the call has made, in order
    pong,      \* the response Ping returned: <<>> is nil
    err,       \* the error Ping returned ("nil" is nil) or the panic's value
    rd,        \* readPong's run: <<>> before it ran
    cpc,       \* the codec applied to an input: where it is
    cx,        \* a uint64
    cbuf,      \* encodeVarint(cx)
    cdec,      \* binary.Uvarint(cbuf)
    crd,       \* binary.ReadUvarint on a reader of cbuf
    cpl,       \* a payload
    cpkt       \* makePacket(cpl)

pingVars == <<pc, address, port, host, target, conn, closes, wire, peers,
              server, steps, pong, err, rd>>
codecVars == <<cpc, cx, cbuf, cdec, crd, cpl, cpkt>>
vars == <<pc, address, port, host, target, conn, closes, wire, peers, server,
          steps, pong, err, rd, cpc, cx, cbuf, cdec, crd, cpl, cpkt>>

\* where a call is while it is in Ping
Running == {"Disconnected", "Connected", "HandshakeSent", "StatusRequested"}

NoTarget == [ok |-> FALSE, host |-> <<>>, port |-> 0]
NoVarint == [x |-> {}, n |-> 0]
NoRead == [x |-> {}, err |-> "nil", used |-> 0]

\* the codec at rest
CodecIdle ==
    /\ cpc = "idle"
    /\ cx = {}
    /\ cbuf = <<>>
    /\ cdec = NoVarint
    /\ crd = NoRead
    /\ cpl = <<>>
    /\ cpkt = <<>>

\* the calls of `active` are made, each with arguments of its own drawn from
\* addrs and ports; each peer plays one of scripts
PingInit(active, addrs, ports, scripts) ==
    /\ peers = scripts
    /\ pc = [c \in Calls |-> IF c \in active THEN "Disconnected" ELSE "NotCalled"]
    /\ \E a \in [active -> addrs], p \in [active -> ports] :
         /\ address = [c \in Calls |-> IF c \in active THEN a[c] ELSE <<>>]
         /\ port = [c \in Calls |-> IF c \in active THEN p[c] ELSE 0]
    /\ host = [c \in Calls |-> <<>>]
    /\ target = [c \in Calls |-> NoTarget]
    /\ conn = [c \in Calls |-> "nil"]
    /\ closes = [c \in Calls |-> 0]
    /\ wire = [c \in Calls |-> <<>>]
    /\ server = [c \in Calls |-> NoScript]
    /\ steps = [c \in Calls |-> <<>>]
    /\ pong = [c \in Calls |-> <<>>]
    /\ err = [c \in Calls |-> "nil"]
    /\ rd = [c \in Calls |-> <<>>]

Init == PingInit({1}, Addresses, Ports, Scripts) /\ CodecIdle

(***************************************************************************)
(* Ping, one action for each of its I/O steps.  A step that makes Ping     *)
(* return or panic includes the deferred conn.Close().                     *)
(***************************************************************************)
\* the Close left out
deferredCloseMissing(c) == UNCHANGED <<conn, closes>>

\* line 49: the deferred conn.Close() runs when Ping returns or panics
deferredClose(c) ==
    /\ conn' = [conn EXCEPT ![c] = "closed"]
    /\ closes' = [closes EXCEPT ![c] = @ + 1]

\* lines 43-49: the host string, the dial, the deferred Close
Dial(c) ==
    /\ pc[c] = "Disconnected"
    /\ LET h == HostPort(address[c], port[c])
           t == DialTarget(h)
       IN  /\ host' = [host EXCEPT ![c] = h]
           /\ steps' = [steps EXCEPT ![c] = Append(@, "dial")]
           /\ \E connected \in {t.ok, FALSE} :
                IF connected
                THEN /\ pc' = [pc EXCEPT ![c] = "Connected"]
                     /\ conn' = [conn EXCEPT ![c] = "open"]
                     /\ target' = [target EXCEPT ![c] = t]
                     /\ err' = err
                ELSE /\ pc' = [pc EXCEPT ![c] = "Failed"]
                     /\ err' = [err EXCEPT ![c] = "dial error"]
                     /\ UNCHANGED <<conn, target>>
    /\ UNCHANGED <<peers, address, port, closes, wire, server, pong, rd, codecVars>>

\* a Write of pkt on the connection: all of it, or an error after a part
WriteResults(pkt) == [ok : {TRUE}, sent : {pkt}]
                     \cup [ok : {FALSE}, sent : {SubSeq(pkt, 1, k) : k \in 0..(Len(pkt) - 1)}]

\* sendHandShake with its write error dropped: Ping goes on after a failed write
SendHandShakeErrDropped(c) ==
    /\ pc[c] = "Connected"
    /\ steps' = [steps EXCEPT ![c] = Append(@, "handshake")]
    /\ \E w \in WriteResults(makePacket(handShakePayload(host[c]).pl)) :
         wire' = [wire EXCEPT ![c] = Append(@, w)]
    /\ pc' = [pc EXCEPT ![c] = "HandshakeSent"]
    /\ UNCHANGED <<peers, address, port, host, target, server, pong, rd, err, conn,
                   closes, codecVars>>

\* lines 51-53 and sendHandShake (67-100)
SendHandShake(c) ==
    /\ pc[c] = "Connected"
    /\ steps' = [steps EXCEPT ![c] = Append(@, "handshake")]
    /\ LET p == handShakePayload(host[c])
       IN  IF p.panic
           THEN /\ pc' = [pc EXCEPT ![c] = "Panicked"]
                /\ err' = [err EXCEPT ![c] = "panic: host"]
                /\ deferredClose(c)
                /\ wire' = wire
           ELSE \E w \in WriteResults(makePacket(p.pl)) :
                /\ wire' = [wire EXCEPT ![c] = Append(@, w)]
                /\ IF w.ok
                   THEN /\ pc' = [pc EXCEPT ![c] = "HandshakeSent"]
                        /\ UNCHANGED <<err, conn, closes>>
                   ELSE /\ pc' = [pc EXCEPT ![c] = "Failed"]
                        /\ err' = [err EXCEPT ![c] = "cannot write handshake"]
                        /\ deferredClose(c)
    /\ UNCHANGED <<peers, address, port, host, target, server, pong, rd, codecVars>>

\* lines 55-57 and sendStatusRequest (102-113); from here on the peer does
\* what one of the scripts says
SendStatusRequest(c) ==
    /\ pc[c] = "HandshakeSent"
    /\ steps' = [steps EXCEPT ![c] = Append(@, "status")]
    /\ \E w \in WriteResults(makePacket(statusRequestPayload)) :
         /\ wire' = [wire EXCEPT ![c] = Append(@, w)]
         /\ IF w.ok
            THEN /\ pc' = [pc EXCEPT ![c] = "StatusRequested"]
                 /\ \E sc \in peers : server' = [server EXCEPT ![c] = sc]
                 /\ UNCHANGED <<err, conn, closes>>
            ELSE /\ pc' = [pc EXCEPT ![c] = "Failed"]
                 /\ err' = [err EXCEPT ![c] = "cannot write send status request"]
                 /\ deferredClose(c)
                 /\ server' = server
    /\ UNCHANGED <<peers, address, port, host, target, pong, rd, codecVars>>

\* lines 59-64 and readPong (115-146): a read that blocks for ever is no
\* step.  A fatal error of the run time ends the process: the call and
\* every other call still in Ping end there, no deferred call runs.
ReadPong(c) ==
    /\ pc[c] = "StatusRequested"
    /\ \E r \in readPong(server[c].resp, server[c].end) :
         /\ r.kind # "block"
         /\ steps' = [steps EXCEPT ![c] = Append(@, "read")]
         /\ rd' = [rd EXCEPT ![c] = <<r>>]
         /\ pong' = [pong EXCEPT ![c] = r.res]
         /\ err' = [err EXCEPT ![c] = r.err]
         /\ IF r.kind = "fatal"
            THEN /\ pc' = [d \in Calls |-> IF d = c \/ pc[d] \in Running
                                           THEN "Aborted" ELSE pc[d]]
                 /\ UNCHANGED <<conn, closes>>
            ELSE /\ pc' = [pc EXCEPT ![c] = CASE r.kind = "ok" -> "ResponseReceived"
                                              [] r.kind = "err" -> "Failed"
                                              [] r.kind = "panic" -> "Panicked"]
                 /\ deferredClose(c)
    /\ UNCHANGED <<peers, address, port, host, target, wire, server, codecVars>>

Ping(c) == Dial(c) \/ SendHandShake(c) \/ SendStatusRequest(c) \/ ReadPong(c)

Next == \E c \in Calls : Ping(c)

Spec == Init /\ [][Next]_vars


(***************************************************************************)
(* Two calls of Ping at once, each from a goroutine of its own: their      *)
(* steps interleave in every order.                                        *)
(***************************************************************************)
ConcurrentAddresses == {<<109, 99>>, <<58, 58, 49>>}
ConcurrentPorts == {25565}
\* a peer sends a status, a null body or a header of 2^49 or of 2^35 and
\* closes, or it sends a part of a response, or nothing, and stays silent
ConcurrentScripts ==
    { [resp |-> Response(<<76>>, <<0>>, <<74>>, DocStatus), end |-> "eof"],
      [resp |-> Response(<<6>>, <<0>>, <<4>>, DocNull), end |-> "eof"],
      [resp |-> <<128, 128, 128, 128, 128, 128, 128, 1>>, end |-> "eof"],
      [resp |-> <<128, 128, 128, 128, 128, 1>>, end |-> "reset"],
      [resp |-> <<17, 0, 15, 123>>, end |-> "hang"],
      [resp |-> <<>>, end |-> "hang"] }
ConcurrentInit ==
    PingInit(Calls, ConcurrentAddresses, ConcurrentPorts, ConcurrentScripts) /\ CodecIdle
ConcurrentSpec == ConcurrentInit /\ [][Next]_vars


(***************************************************************************)
(* The codec on its own: an input is drawn, then encodeVarint and the two  *)
(* decoders, or makePacket, are applied to it.  No call of Ping is made.   *)
(***************************************************************************)
CodecInit ==
    /\ PingInit({}, Addresses, Ports, Scripts)
    /\ cbuf = <<>>
    /\ cdec = NoVarint
    /\ crd = NoRead
    /\ cpkt = <<>>
    /\ \/ cpc = "varint" /\ cx \in U64Inputs /\ cpl = <<>>
       \/ cpc = "payload" /\ cx = {} /\ cpl \in Payloads

Encode ==
    /\ cpc = "varint"
    /\ cbuf' = encodeVarint(cx)
    /\ cpc' = IF encodeVarintRun(cx).panic THEN "panic" ELSE "encoded"
    /\ UNCHANGED <<cx, cdec, crd, cpl, cpkt, pingVars>>

\* the bytes are decoded from a slice, as readPong decodes the packet id and
\* the string length, and from a reader, as it decodes the length header
Decode ==
    /\ cpc = "encoded"
    /\ cdec' = Uvarint(cbuf)
    /\ crd' = ReadUvarint(cbuf, "eof")
    /\ cpc' = "decoded"
    /\ UNCHANGED <<cx, cbuf, cpl, cpkt, pingVars>>

Frame ==
    /\ cpc = "payload"
    /\ cpkt' = makePacket(cpl)
    /\ cpc' = "framed"
    /\ UNCHANGED <<cx, cbuf, cdec, crd, cpl, pingVars>>

CodecNext == Encode \/ Decode \/ Frame

CodecSpec == CodecInit /\ [][CodecNext]_vars


(***************************************************************************)
(* The claims.                                                             *)
(***************************************************************************)
StepOrder == <<"dial", "handshake", "status", "read">>
IsPrefix(p, q) == Len(p) <= Len(q) /\ SubSeq(q, 1, Len(p)) = p
Returned == {"ResponseReceived", "Failed"}
Left == {"ResponseReceived", "Failed", "Panicked", "Aborted"}

\* the writes of the call that returned no error
HandshakeWritten(c) == Len(wire[c]) >= 1 /\ wire[c][1].ok
StatusWritten(c) == Len(wire[c]) >= 2 /\ wire[c][2].ok

\* the moves of the state machine
Edges ==
    { <<"Disconnected", "Connected">>, <<"Connected", "HandshakeSent">>,
      <<"HandshakeSent", "StatusRequested">>, <<"StatusRequested", "ResponseReceived">>,
      <<"Disconnected", "Failed">>, <<"Connected", "Failed">>,
      <<"HandshakeSent", "Failed">>, <<"StatusRequested", "Failed">>,
      \* a run-time panic or a fatal error in readPong's allocation
      <<"StatusRequested", "Panicked">>, <<"StatusRequested", "Aborted">> }

\* the steps made are a beginning of dial, handshake, status, read, each made
\* once; a write is made for each write step; the second write follows a
\* whole first one and the read follows two whole writes
C1_Order(c) ==
    /\ IsPrefix(steps[c], StepOrder)
    /\ Len(wire[c]) = Cardinality({i \in 1..Len(steps[c]) : steps[c][i] \in {"handshake", "status"}})
    /\ Len(wire[c]) >= 2 => HandshakeWritten(c)
    /\ Len(steps[c]) = 4 => HandshakeWritten(c) /\ StatusWritten(c)
    /\ pc[c] = "Disconnected" => steps[c] = <<>>
    /\ pc[c] = "Connected" => steps[c] = SubSeq(StepOrder, 1, 1)
    /\ pc[c] = "HandshakeSent" => steps[c] = SubSeq(StepOrder, 1, 2) /\ HandshakeWritten(c)
    /\ pc[c] = "StatusRequested" => steps[c] = SubSeq(StepOrder, 1, 3) /\ StatusWritten(c)
    /\ pc[c] = "ResponseReceived" => steps[c] = StepOrder

\* a step of the call moves along an edge; a failed dial, a short write and
\* a failed read move to Failed; a call that has left Ping does nothing more
C1_Move(c) ==
    /\ pc'[c] # pc[c] => <<pc[c], pc'[c]>> \in Edges
    /\ (Len(wire'[c]) > Len(wire[c]) /\ pc[c] = "Connected" /\ ~HandshakeWritten(c)')
          => pc'[c] = "Failed"
    /\ (Len(wire'[c]) > Len(wire[c]) /\ pc[c] = "HandshakeSent" /\ ~StatusWritten(c)')
          => pc'[c] = "Failed"
    /\ (pc[c] = "Disconnected" /\ steps'[c] # steps[c] /\ ~target'[c].ok) => pc'[c] = "Failed"
    /\ (rd'[c] # <<>> /\ rd'[c][1].kind = "err") => pc'[c] = "Failed"
    /\ pc[c] \in Left =>
          /\ pc'[c] = pc[c] /\ steps'[c] = steps[c] /\ wire'[c] = wire[c]
          /\ rd'[c] = rd[c] /\ conn'[c] = conn[c] /\ closes'[c] = closes[c]
          /\ pong'[c] = pong[c] /\ err'[c] = err[c]

\* C1: every run of Ping goes Disconnected, Connected, HandshakeSent,
\* StatusRequested, ResponseReceived: the status request is written only
\* after the whole handshake, the read starts only after both writes, each
\* of the four steps is made at most once, and a failure in any state moves
\* to Failed, after which the call writes, reads and retries nothing.
C1_StateSequence ==
    [][\A c \in Calls : C1_Order(c) /\ C1_Order(c)' /\ C1_Move(c)]_vars

\* a call that went through the four steps and returned its response
C1_Witness ==
    \E c \in Calls : pc[c] = "ResponseReceived" /\ steps[c] = StepOrder
                     /\ HandshakeWritten(c) /\ StatusWritten(c)

\* C2: where the dial succeeded, the connection is closed exactly once when
\* Ping is left by a return or a panic, and not before; where the dial
\* failed there is no connection and nothing is closed.
C2_ClosedOnce ==
    \A c \in Calls :
        /\ (pc[c] \in {"ResponseReceived", "Failed", "Panicked"} /\ target[c].ok)
              => conn[c] = "closed" /\ closes[c] = 1
        /\ (pc[c] = "Failed" /\ ~target[c].ok)
              => conn[c] = "nil" /\ closes[c] = 0 /\ steps[c] = <<"dial">>
        /\ pc[c] \in Running => closes[c] = 0 /\ conn[c] # "closed"
        /\ pc[c] \in Running \ {"Disconnected"} => conn[c] = "open"

\* a call left by the error of the second write, its connection closed
C2_Witness ==
    \E c \in Calls : pc[c] = "Failed" /\ err[c] = "cannot write send status request"
                     /\ conn[c] = "closed" /\ closes[c] = 1

\* the error readPong returns on what the peer did, step by step
C3_ReadError(sc) ==
    LET hdr  == ReadUvarint(sc.resp, sc.end)
        rest == SliceFrom(sc.resp, hdr.used)
        pl   == SubSeq(rest, 1, Nat64(hdr.x))
        a    == Uvarint(pl)
        b    == Uvarint(SliceFrom(pl, a.n))
    IN  IF hdr.err # "nil" THEN "could not read length"
        ELSE IF ~Fits31(hdr.x) \/ Nat64(hdr.x) > Len(rest)
             THEN "could not read length given by length header"
        ELSE IF a.n <= 0 THEN "could not read packet id"
        ELSE IF b.n <= 0 THEN "could not read string varint"
        ELSE IF ~Unmarshal(SliceFrom(pl, a.n + b.n)).ok THEN "could not read pong json"
        ELSE "nil"

\* C3: Ping returns a response or an error, never both and never neither;
\* a response only when the dial, both writes, the framed read, both header
\* varints and the JSON decoding succeeded; and the error is that of the
\* first step that failed.
C3_NoPartialResult ==
    \A c \in Calls :
        /\ pc[c] \notin Returned => pong[c] = <<>>
        /\ pc[c] \in Running => err[c] = "nil"
        /\ pc[c] \in Returned => ((pong[c] # <<>>) # (err[c] # "nil"))
        /\ pong[c] # <<>> =>
              /\ pc[c] = "ResponseReceived" /\ target[c].ok
              /\ HandshakeWritten(c) /\ StatusWritten(c)
              /\ C3_ReadError(server[c]) = "nil"
              /\ pong[c] = <<Unmarshal(rd[c][1].json[1]).res>>
        /\ pc[c] = "Failed" =>
              err[c] = CASE Len(steps[c]) = 1 -> "dial error"
                         [] Len(steps[c]) = 2 -> "cannot write handshake"
                         [] Len(steps[c]) = 3 -> "cannot write send status request"
                         [] OTHER -> C3_ReadError(server[c])

\* a call whose framing and header were right and whose JSON was not
C3_Witness ==
    \E c \in Calls : pc[c] = "Failed" /\ err[c] = "could not read pong json"
                     /\ pong[c] = <<>> /\ rd[c][1].n > 0 /\ rd[c][1].n2 > 0

\* the read of the response returns: with what the peer sends and how the
\* peer ends, some run of readPong comes back to Ping
ReadReturns(c) ==
    \E r \in readPong(server[c].resp, server[c].end) : r.kind # "block"

\* C4: every call of Ping reaches ResponseReceived or Failed whatever the
\* peer does: the dial is bounded by the timeout, each write is made once
\* and returns, and the read of the response is bounded, so a call that has
\* written both packets is never left waiting for the peer without end.
C4_ReadIsBounded ==
    \A c \in Calls : pc[c] = "StatusRequested" => ReadReturns(c)

\* C5: for every uint64 x, 0 and 2^64 - 1 among them, encodeVarint(x) has
\* 1 to 10 bytes, and both decoders readPong uses (binary.Uvarint on the
\* payload, binary.ReadUvarint on the stream) give back x and report as
\* consumed exactly the length of encodeVarint(x).
C5_RoundTrip ==
    /\ cpc # "panic"
    /\ cpc \in {"encoded", "decoded"} => Len(cbuf) >= 1 /\ Len(cbuf) <= 10
    /\ cpc = "decoded" =>
          /\ cdec.x = cx /\ cdec.n = Len(cbuf)
          /\ crd.x = cx /\ crd.err = "nil" /\ crd.used = Len(cbuf)

\* 2^64 - 1 went through the codec: ten bytes, all 64 bits back
C5_Witness ==
    /\ cpc = "decoded" /\ cx = 0..63
    /\ cbuf = <<255, 255, 255, 255, 255, 255, 255, 255, 255, 1>>
    /\ cdec = [x |-> 0..63, n |-> 10]

\* bit j of the byte b
C6_Bit(b, j) == (b \div Pow2(j)) % 2 = 1

\* C6: encodeVarint writes x in groups of 7 bits, the lowest group first,
\* with the bit 0x80 set on every byte but the last; so 0 is 00, 127 is 7F,
\* 128 is 80 01 and 25565 is DD C7 01.
C6_Groups ==
    cpc \in {"encoded", "decoded"} =>
        /\ \A i \in 1..Len(cbuf) : (cbuf[i] >= 128) <=> (i < Len(cbuf))
        /\ \A i \in 1..Len(cbuf), j \in 0..6 :
              C6_Bit(cbuf[i], j) <=> (7 * (i - 1) + j \in cx)
        /\ \A k \in cx : k < 7 * Len(cbuf)
        /\ cx = {} => cbuf = <<0>>
        /\ cx = 0..6 => cbuf = <<127>>
        /\ cx = {7} => cbuf = <<128, 1>>
        /\ cx = {0, 2, 3, 4, 6, 7, 8, 9, 13, 14} => cbuf = <<221, 199, 1>>

\* 25565 was encoded as DD C7 01
C6_Witness ==
    /\ cpc = "encoded"
    /\ cx = {0, 2, 3, 4, 6, 7, 8, 9, 13, 14}
    /\ cbuf = <<221, 199, 1>>

\* the number a varint's bytes stand for, for a varint of at most two bytes
C7_Value(bytes) ==
    IF Len(bytes) = 1 THEN bytes[1] ELSE (bytes[1] % 128) + 128 * bytes[2]

\* C7: for every payload p, the empty one included, makePacket(p) is
\* encodeVarint(len(p)) and then the bytes of p, unchanged and in order;
\* the header is the varint of the number len(p) and of nothing else of p.
C7_Framing ==
    cpc = "framed" =>
        LET k == Len(cpkt) - Len(cpl)
            header == SubSeq(cpkt, 1, k)
        IN  /\ k \in {1, 2}
            /\ SubSeq(cpkt, k + 1, Len(cpkt)) = cpl
            /\ header = encodeVarint(U64(Len(cpl)))
            /\ C7_Value(header) = Len(cpl)
            /\ k = (IF Len(cpl) < 128 THEN 1 ELSE 2)
            /\ header[k] < 128
            /\ k = 2 => header[1] >= 128

\* a payload of 300 bytes was framed: the header is AC 02
C7_Witness ==
    /\ cpc = "framed" /\ Len(cpl) = 300
    /\ Len(cpkt) = 302 /\ cpkt[1] = 172 /\ cpkt[2] = 2 /\ cpkt[302] = cpl[300]

\* the varint of a number below 2^14
C8_Varint(n) == IF n < 128 THEN <<n>> ELSE <<128 + (n % 128), n \div 128>>

\* the handshake packet for a host and a port
C8_Packet(h, p) ==
    LET body == <<0, 47>> \o C8_Varint(Len(h)) \o h \o <<p \div 256, p % 256>> \o <<1>>
    IN  C8_Varint(Len(body)) \o body

\* C8: the first write of a call is the handshake packet: the varint of the
\* payload's length, the packet id 00, the protocol version 2F, the varint
\* of the host's length, the host's bytes, the port in two bytes high byte
\* first, and the next state 01; host and port are those that were dialed.
\* A write that fails has sent a part of that packet and no other byte.
C8_Handshake ==
    \A c \in Calls :
        Len(wire[c]) >= 1 =>
            /\ target[c].ok /\ target[c].port = port[c] /\ target[c].port \in 0..65535
            /\ host[c] = HostPort(address[c], port[c])
            /\ IF wire[c][1].ok
               THEN wire[c][1].sent = C8_Packet(target[c].host, target[c].port)
               ELSE /\ IsPrefix(wire[c][1].sent, C8_Packet(target[c].host, target[c].port))
                    /\ wire[c][1].sent # C8_Packet(target[c].host, target[c].port)

\* the handshake for mc:25565 was written
C8_Witness ==
    \E c \in Calls :
        /\ address[c] = <<109, 99>> /\ port[c] = 25565
        /\ Len(wire[c]) >= 1
        /\ wire[c][1] = [ok |-> TRUE, sent |-> <<8, 0, 47, 2, 109, 99, 99, 221, 1>>]

\* C9: the second write of a call is the two bytes 01 00, the length 1 and
\* the packet id 0, whatever the host and the port are and whatever the
\* peer does.  A write that fails has sent a part of them.
C9_StatusRequest ==
    \A c \in Calls :
        Len(wire[c]) >= 2 =>
            IF wire[c][2].ok
            THEN wire[c][2].sent = <<1, 0>>
            ELSE wire[c][2].sent \in {<<>>, <<1>>}

\* the status request was written after the handshake for the long host
\* name and the port 65535
C9_Witness ==
    \E c \in Calls :
        /\ address[c] = LongHost /\ port[c] = 65535
        /\ Len(wire[c]) = 2 /\ wire[c][2] = [ok |-> TRUE, sent |-> <<1, 0>>]

\* the fields each of the well-formed documents declares
C10_Fields(doc) ==
    CASE doc = DocEmpty -> ZeroResponse
      [] doc = DocFavicon -> [ZeroResponse EXCEPT !.Favicon = <<120>>]
      [] doc = DocStatus ->
            [Version |-> [Name |-> <<49, 46, 50, 48>>, Protocol |-> 763],
             Players |-> [Max |-> 20, Online |-> 3, Sample |-> <<>>],
             Description |-> JNull,
             Favicon |-> <<>>]
      [] doc = DocMixed ->
            [ZeroResponse EXCEPT !.Description = JStr(<<65>>), !.Favicon = <<121>>]
      [] doc = DocLong -> [ZeroResponse EXCEPT !.Favicon = [i \in 1..120 |-> 105]]

\* C10: when the peer sends a length header N, a packet id, a string length
\* and a JSON document, N being the length of the three together, readPong
\* reads the N bytes of the payload and no more, skips as many bytes as the
\* two varints take, gives what is left of the payload, unchanged and in
\* order, to the JSON decoder, and returns the document's fields.
C10_WellFormedRead ==
    \A c \in Calls : \A w \in WellFormedParts :
        (/\ pc[c] \in Left /\ Len(steps[c]) = 4
         /\ server[c].resp = Response(w.header, w.pid, w.strlen, w.doc) \o w.more)
        => /\ pc[c] = "ResponseReceived" /\ err[c] = "nil"
           /\ rd[c][1].kind = "ok"
           /\ Fits31(rd[c][1].nl)
           /\ Nat64(rd[c][1].nl) = Len(w.pid) + Len(w.strlen) + Len(w.doc)
           /\ rd[c][1].pl = <<w.pid \o w.strlen \o w.doc>>
           /\ rd[c][1].n = Len(w.pid)
           /\ rd[c][1].n2 = Len(w.strlen)
           /\ rd[c][1].json = <<w.doc>>
           /\ pong[c] = <<C10_Fields(w.doc)>>

\* the favicon document came back from behind a packet id and a string
\* length of two bytes each
C10_Witness ==
    \E c \in Calls :
        /\ pc[c] = "ResponseReceived"
        /\ server[c].resp = Response(<<19>>, <<128, 1>>, <<255, 127>>, DocFavicon)
        /\ rd[c][1].n = 2 /\ rd[c][1].n2 = 2
        /\ rd[c][1].json = <<DocFavicon>>
        /\ pong[c][1].Favicon = <<120>>

\* the length header the peer of call c sent, as readPong reads it
LengthHeader(c) == ReadUvarint(server[c].resp, server[c].end)

\* the read of call c was made on a stream that ended, by a close or by an
\* error, after a whole length header and before the payload it declares
C11_ShortStream(c) ==
    /\ pc[c] \in Left /\ Len(steps[c]) = 4
    /\ server[c].end \in {"eof", "reset"}
    /\ LengthHeader(c).err = "nil"
    /\ \/ ~Fits31(LengthHeader(c).x)
       \/ Nat64(LengthHeader(c).x) > Len(server[c].resp) - LengthHeader(c).used

\* the call returned the error of the short read and no response, its
\* connection closed once
C11_Reported(c) ==
    /\ pc[c] = "Failed"
    /\ err[c] = "could not read length given by length header"
    /\ pong[c] = <<>>
    /\ conn[c] = "closed" /\ closes[c] = 1

\* C11: when the stream ends before the payload bytes the length header
\* declares have come, readPong returns an error and no response, and Ping
\* closes the connection exactly once and reports that error.
C11_ShortRead ==
    \A c \in Calls : C11_ShortStream(c) => C11_Reported(c)

\* C11 for the lengths the allocation of line 122 can serve: below 2^MemBits
C11_ShortReadAllocated ==
    \A c \in Calls :
        (C11_ShortStream(c) /\ ~MayExhaustMemory(LengthHeader(c).x)) => C11_Reported(c)

\* a stream that ended after the first byte of the document: reported
C11_Witness ==
    \E c \in Calls :
        /\ C11_ShortStream(c)
        /\ server[c].resp = <<17, 0, 15, 123>>
        /\ C11_Reported(c)

\* the read of call c was made and the header it decoded declares 2^31
\* bytes or more: a length beyond any bound a status response can have
C12_Implausible(c) ==
    /\ pc[c] \in Left /\ Len(steps[c]) = 4
    /\ LengthHeader(c).err = "nil"
    /\ ~Fits31(LengthHeader(c).x)

\* the run of readPong came to the allocation of line 122: it ended there,
\* or it returned from a line after it
C12_ReachedMake(r) ==
    \/ r.kind \in {"panic", "fatal", "ok"}
    \/ r.kind = "err" /\ r.err # "could not read length"

\* C12: when the length header is implausible the read fails with an error
\* of its own, returned before a buffer of the declared size is allocated
\* and before a byte of the payload is read.
C12_InvalidLength ==
    \A c \in Calls :
        C12_Implausible(c) =>
            /\ pc[c] = "Failed" /\ pong[c] = <<>>
            /\ ~C12_ReachedMake(rd[c][1])

\* a header of 2^49 was read and the allocation panicked
C12_Witness ==
    \E c \in Calls :
        /\ C12_Implausible(c)
        /\ server[c].resp = <<128, 128, 128, 128, 128, 128, 128, 1>>
        /\ LengthHeader(c).x = {49}
        /\ pc[c] = "Panicked" /\ rd[c][1].kind = "panic"

\* no byte of the first ten of b ends a varint: the continuation bit is set
\* on ten bytes, or on every byte up to the end of b
C13_Unended(b) == \A i \in 1..Len(b) : i <= 10 => b[i] >= 128

\* the payload the peer of call c sent, when all of it came
C13_Payload(c) ==
    LET h == LengthHeader(c)
    IN  IF h.err = "nil" /\ Fits31(h.x)
           /\ Nat64(h.x) <= Len(server[c].resp) - h.used
        THEN <<SubSeq(server[c].resp, h.used + 1, h.used + Nat64(h.x))>>
        ELSE <<>>

\* the number of bytes of the varint b begins with, 0 when it begins with none
C13_First(b) ==
    IF \E i \in 1..Len(b) : i <= 10 /\ b[i] < 128
    THEN LET k == CHOOSE i \in 1..Len(b) : b[i] < 128 /\ \A j \in 1..(i - 1) : b[j] >= 128
         IN  IF k = 10 /\ b[k] > 1 THEN 0 ELSE k
    ELSE 0

\* C13: a varint whose continuation bits do not end within ten bytes, or
\* run to the end of the bytes there are, is an error and never a value:
\* for the length header on a stream that ended, for the packet id and for
\* the string length in the payload.
C13_UnendedVarint ==
    \A c \in Calls :
        (pc[c] \in Left /\ Len(steps[c]) = 4) =>
            /\ (C13_Unended(server[c].resp) /\ server[c].end \in {"eof", "reset"})
                  => /\ pc[c] = "Failed" /\ pong[c] = <<>>
                     /\ err[c] = "could not read length"
            /\ \A pl \in {C13_Payload(c)[i] : i \in 1..Len(C13_Payload(c))} :
                  /\ C13_Unended(pl)
                        => /\ pc[c] = "Failed" /\ pong[c] = <<>>
                           /\ err[c] = "could not read packet id"
                  /\ (C13_First(pl) > 0 /\ C13_Unended(SliceFrom(pl, C13_First(pl))))
                        => /\ pc[c] = "Failed" /\ pong[c] = <<>>
                           /\ err[c] = "could not read string varint"

\* a string length of eleven continued bytes was refused
C13_Witness ==
    \E c \in Calls :
        /\ pc[c] = "Failed" /\ err[c] = "could not read string varint"
        /\ server[c].resp = <<13, 0, 128, 128, 128, 128, 128, 128, 128, 128, 128, 128, 128, 0>>
        /\ rd[c][1].n = 1 /\ rd[c][1].n2 < 0

\* the errors of the two header varints
C14_HeaderErrors == {"could not read packet id", "could not read string varint"}

\* C14: when the packet id or the string length cannot be decoded from the
\* payload (an empty payload and one that ends after the packet id
\* included), readPong returns a header error and no response and does not
\* come to the JSON decoder; it returns these errors in no other case.
C14_MalformedHeader ==
    \A c \in Calls :
        (pc[c] \in Left /\ Len(steps[c]) = 4) =>
            /\ \A pl \in {C13_Payload(c)[i] : i \in 1..Len(C13_Payload(c))} :
                  LET k == C13_First(pl)
                  IN  /\ (k = 0) <=> (err[c] = "could not read packet id")
                      /\ (k > 0 /\ C13_First(SliceFrom(pl, k)) = 0)
                            <=> (err[c] = "could not read string varint")
            /\ err[c] \in C14_HeaderErrors =>
                  /\ C13_Payload(c) # <<>>
                  /\ pc[c] = "Failed" /\ pong[c] = <<>>
                  /\ rd[c][1].kind = "err" /\ rd[c][1].json = <<>>

\* a payload that ends after the packet id
C14_Witness ==
    \E c \in Calls :
        /\ server[c].resp = <<1, 0>>
        /\ pc[c] = "Failed" /\ err[c] = "could not read string varint"
        /\ pong[c] = <<>> /\ rd[c][1].json = <<>> /\ rd[c][1].n = 1 /\ rd[c][1].n2 = 0

\* the documents of the model that have the shape of a status response
C15_StatusDocuments == {w.doc : w \in WellFormedParts}

\* the bytes after the two header varints of the payload of call c, when
\* the payload came whole and both varints decode
C15_Body(c) ==
    IF C13_Payload(c) = <<>> THEN <<>>
    ELSE LET pl == C13_Payload(c)[1]
             k  == C13_First(pl)
             k2 == C13_First(SliceFrom(pl, k))
         IN  IF k > 0 /\ k2 > 0 THEN <<SliceFrom(pl, k + k2)>> ELSE <<>>

\* the call returned the error of the body and no response
C15_BodyError(c) ==
    /\ pc[c] = "Failed" /\ err[c] = "could not read pong json"
    /\ pong[c] = <<>>

\* C15: when the framing and both header varints are right and the bytes
\* left are not a JSON document of the shape of a status response, readPong
\* returns a body error and a nil response.
C15_MalformedBody ==
    \A c \in Calls :
        (/\ pc[c] \in Left /\ Len(steps[c]) = 4
         /\ C15_Body(c) # <<>> /\ C15_Body(c)[1] \notin C15_StatusDocuments)
        => C15_BodyError(c)

\* C15 for the bodies that json.Unmarshal refuses: every one but null
C15_RefusedBody ==
    \A c \in Calls :
        (/\ pc[c] \in Left /\ Len(steps[c]) = 4
         /\ C15_Body(c) # <<>> /\ C15_Body(c)[1] \notin C15_StatusDocuments
         /\ C15_Body(c)[1] # DocNull)
        => C15_BodyError(c)

\* the body null came back as a response with every field zero
C15_Witness ==
    \E c \in Calls :
        /\ C15_Body(c) = <<DocNull>>
        /\ pc[c] = "ResponseReceived" /\ err[c] = "nil"
        /\ pong[c] = <<ZeroResponse>>

\* the host string of call c does not split into host and port, or its
\* port is no number
C16_Unparsable(c) ==
    LET sp == SplitHostPort(HostPort(address[c], port[c]))
    IN  sp.err # "nil" \/ ~Atoi(sp.port).ok

\* ::1 (too many colons), [mc (no closing bracket) and m] (a stray bracket)
C16_BadAddresses == {<<58, 58, 49>>, <<91, 109, 99>>, <<109, 93>>}

\* C16: a host string that does not split, or whose port does not parse, is
\* reported to the caller of Ping as a failure before a byte is sent: the
\* call fails at the dial, nothing is written, and sendHandShake never
\* comes to its panics.
C16_ConfigurationError ==
    \A c \in Calls :
        /\ address[c] \in C16_BadAddresses => C16_Unparsable(c)
        /\ (C16_Unparsable(c) /\ pc[c] \notin {"NotCalled", "Disconnected"})
              => /\ pc[c] = "Failed" /\ err[c] = "dial error" /\ pong[c] = <<>>
                 /\ steps[c] = <<"dial">> /\ wire[c] = <<>>
                 /\ conn[c] = "nil" /\ closes[c] = 0
        /\ pc[c] = "Panicked" => Len(steps[c]) = 4 /\ err[c] # "panic: host"

\* the call for [mc failed at the dial with nothing sent
C16_Witness ==
    \E c \in Calls :
        /\ address[c] = <<91, 109, 99>> /\ C16_Unparsable(c)
        /\ pc[c] = "Failed" /\ err[c] = "dial error" /\ wire[c] = <<>>

\* all that belongs to call c: its arguments, its locals, its connection
\* and what its peer does
C17_Local(c) ==
    <<pc[c], address[c], port[c], host[c], target[c], conn[c], closes[c],
      wire[c], server[c], steps[c], pong[c], err[c], rd[c]>>

\* what call c has sent, got and returned is what a call with its arguments
\* makes alone of the same dial, the same writes and the same peer: each is
\* given by the call's own arguments, connection and peer
C17_Alone(c) ==
    /\ steps[c] # <<>> => host[c] = HostPort(address[c], port[c])
    /\ target[c] = (IF Len(steps[c]) >= 1 /\ conn[c] # "nil" THEN DialTarget(host[c]) ELSE NoTarget)
    /\ Len(wire[c]) >= 1 =>
          LET pkt == makePacket(handShakePayload(host[c]).pl)
          IN  /\ IsPrefix(wire[c][1].sent, pkt)
              /\ wire[c][1].ok <=> wire[c][1].sent = pkt
    /\ Len(wire[c]) >= 2 =>
          /\ IsPrefix(wire[c][2].sent, <<1, 0>>)
          /\ wire[c][2].ok <=> wire[c][2].sent = <<1, 0>>
    /\ rd[c] # <<>> =>
          /\ rd[c][1] \in readPong(server[c].resp, server[c].end)
          /\ pong[c] = rd[c][1].res /\ err[c] = rd[c][1].err
    /\ rd[c] = <<>> =>
          /\ pong[c] = <<>>
          /\ err[c] = (IF pc[c] # "Failed" THEN "nil"
                       ELSE CASE Len(steps[c]) = 1 -> "dial error"
                              [] Len(steps[c]) = 2 -> "cannot write handshake"
                              [] OTHER -> "cannot write send status request")
    /\ conn[c] = (IF pc[c] \in Running \ {"Disconnected"} \/ pc[c] = "Aborted" THEN "open"
                  ELSE IF pc[c] \in Left /\ Len(steps[c]) >= 2 THEN "closed"
                  ELSE "nil")
    /\ closes[c] = (IF conn[c] = "closed" THEN 1 ELSE 0)

\* the step is the end of the process by a fatal error in one of the calls
C17_ProcessEnds == \E c \in Calls : pc[c] # "Aborted" /\ pc'[c] = "Aborted"

\* C17 as long as the allocation of line 122 is served: until the process
\* ends, every step leaves the other call as it was and every call is as
\* it is alone
C17_IndependentServed ==
    /\ []((\A c \in Calls : pc[c] # "Aborted") => \A c \in Calls : C17_Alone(c))
    /\ [][C17_ProcessEnds
           \/ \E c \in Calls : \A d \in Calls \ {c} : C17_Local(d)' = C17_Local(d)]_vars

\* C17: two calls of Ping at once do not touch each other: every step is
\* the step of one call and leaves all that belongs to the other as it was,
\* and in every interleaving what a call has sent, returned and closed is
\* what it makes alone of its own arguments, connection and peer.
C17_Independent ==
    /\ [](\A c \in Calls : C17_Alone(c))
    /\ [][\E c \in Calls : \A d \in Calls \ {c} : C17_Local(d)' = C17_Local(d)]_vars

\* one call has written its handshake when the other, reading a header of
\* 2^35, ends the process: the first never returns and never closes
C17_Witness ==
    /\ steps[1] = <<"dial", "handshake">> /\ pc[1] = "Aborted" /\ conn[1] = "open"
    /\ pc[2] = "Aborted" /\ rd[2] # <<>> /\ LengthHeader(2).x = {35}

\* varints of k bytes with other values, for k = 1 and k = 2; bytes is kept
\* when it is longer
C18_LowBytes == {0, 15, 127}
C18_Varints(k, bytes) ==
    IF k = 1 THEN {<<b>> : b \in C18_LowBytes}
    ELSE IF k = 2 THEN {<<128 + a, b>> : a \in C18_LowBytes, b \in C18_LowBytes}
    ELSE {bytes}

\* how a run of readPong ended and what it returned
C18_Outcome(r) == <<r.kind, r.err, r.res>>

\* C18: readPong reads the packet id and the string length for their byte
\* counts alone: a response with other values in the two varints, of the
\* same byte lengths, has the same outcome, and a string length that is not
\* the number of bytes of the document is no failure.
C18_ValuesIgnored ==
    \A c \in Calls :
        (pc[c] \in Left /\ Len(steps[c]) = 4 /\ C15_Body(c) # <<>>) =>
            LET h    == LengthHeader(c)
                pl   == C13_Payload(c)[1]
                k    == C13_First(pl)
                k2   == C13_First(SliceFrom(pl, k))
                body == C15_Body(c)[1]
                more == SliceFrom(server[c].resp, h.used + Len(pl))
            IN  /\ \A p \in C18_Varints(k, SubSeq(pl, 1, k)) :
                   \A q \in C18_Varints(k2, SubSeq(pl, k + 1, k + k2)) :
                      {C18_Outcome(r) :
                          r \in readPong(SubSeq(server[c].resp, 1, h.used)
                                            \o p \o q \o body \o more,
                                         server[c].end)}
                      = {C18_Outcome(rd[c][1])}
                /\ body \in C15_StatusDocuments
                      => pc[c] = "ResponseReceived" /\ pong[c] = <<C10_Fields(body)>>

\* a response whose string length says 16383 bytes for a document of 15
C18_Witness ==
    \E c \in Calls :
        /\ server[c].resp = Response(<<19>>, <<128, 1>>, <<255, 127>>, DocFavicon)
        /\ pc[c] = "ResponseReceived"
        /\ rd[c][1].n2 = 2 /\ Len(rd[c][1].json[1]) = 15
        /\ pong[c] = <<C10_Fields(DocFavicon)>>

\* C19: for every port from 0 to 65535, those from 32768 on included, that
\* int16 does not hold, the two port bytes of the handshake are the port
\* div 256 and the port mod 256: the port is read back from them whole.
C19_PortBytes ==
    \A c \in Calls :
        (Len(wire[c]) >= 1 /\ wire[c][1].ok) =>
            LET sent == wire[c][1].sent
                hi   == sent[Len(sent) - 2]
                lo   == sent[Len(sent) - 1]
            IN  /\ port[c] \in 0..65535
                /\ hi = port[c] \div 256 /\ lo = port[c] % 256
                /\ 256 * hi + lo = port[c]
                /\ sent[Len(sent)] = 1

\* the handshake for the port 40000, which int16 holds as -25536: 9C 40
C19_Witness ==
    \E c \in Calls :
        /\ port[c] = 40000 /\ address[c] = <<109, 99>>
        /\ Len(wire[c]) >= 1
        /\ wire[c][1] = [ok |-> TRUE, sent |-> <<8, 0, 47, 2, 109, 99, 156, 64, 1>>]
        /\ Int16(port[c]) = -25536

\* the slices a run of readPong took keep inside the payload it read, of
\* the declared length N: 0 < n <= N for pl[n:], and 0 < n2 and n + n2 <= N
\* for pl[n+n2:]
C20_InBounds(r) ==
    r.pl # <<>> =>
        LET N == Len(r.pl[1])
        IN  /\ N = Nat64(r.nl)
            /\ r.n <= N
            /\ r.n > 0 => r.n2 <= N - r.n
            /\ r.json # <<>> => (r.n > 0 /\ r.n2 > 0 /\ r.json[1] = SliceFrom(r.pl[1], r.n + r.n2))

\* the slicing alone: no run of readPong takes a slice outside its payload
C20_SlicesInBounds ==
    \A c \in Calls : rd[c] # <<>> => C20_InBounds(rd[c][1])

\* C20: readPong never indexes outside the payload, whatever the declared
\* length and the bytes: every read of a response, hostile ones included,
\* ends in an error value or in a result and never in an out-of-range crash.
C20_NoOutOfRange ==
    \A c \in Calls :
        rd[c] # <<>> =>
            /\ C20_InBounds(rd[c][1])
            /\ rd[c][1].kind \in {"err", "ok"}
            /\ pc[c] \in {"Failed", "ResponseReceived"}

\* a header of 2^64 - 1: the call ends in the run-time panic of the
\* allocation, "makeslice: len out of range"
C20_Witness ==
    \E c \in Calls :
        /\ server[c].resp = <<255, 255, 255, 255, 255, 255, 255, 255, 255, 1>>
        /\ rd[c] # <<>> /\ rd[c][1].kind = "panic"
        /\ rd[c][1].err = "makeslice: len out of range"
        /\ pc[c] = "Panicked" /\ pong[c] = <<>>

=============================================================================
